---- MODULE Spec2Model ----
(***************************************************************************)
(* Model of src/StarField/sketch/CosmicSphere.ts: the class CosmicSphere   *)
(* (constructor and drawSphere) together with the p5.js calls it makes.    *)
(*                                                                         *)
(* Numbers.  Coordinates and distances are integers.  The two alpha        *)
(* factors aLight and aLineLen are fixed-point numbers in units of         *)
(* 1/AlphaScale; their product alpha_1 and every colour channel handed to  *)
(* color() are in units of 1/ColorUnit (ColorUnit = AlphaScale^2).  With   *)
(* AlphaScale = 1200 - 600 the light mapping is exact for every integer    *)
(* distance, and the sampled points are chosen so that every chord length  *)
(* and midpoint is an integer, which makes the length mapping exact too.   *)
(* The only rounding is the square root of the midpoint-to-light distance  *)
(* (rounded down to an integer).  The IEEE value NaN is the sentinel NaN.  *)
(***************************************************************************)
EXTENDS Integers, Sequences, FiniteSets, TLC

\* ---------------------------------------------------------------- bounds
MaxIterations == 2      \* iterations ranges over -1 .. MaxIterations
MaxRadiusScale == 1     \* size ranges over 5 * (-1 .. MaxRadiusScale)

\* ------------------------------------------------------- program constants
LightNear == 600        \* map(dLight, 600, ...
LightFar == 1200        \* map(dLight, ..., 1200, ...
ChannelMax == 255       \* color(0, 0, 0, 255): channels range over 0..255
AlphaScale == LightFar - LightNear
ColorUnit == AlphaScale * AlphaScale
ADD == "lighter"        \* p5 constant ADD
SourceOver == "source-over"
NaN == -2000000000      \* IEEE NaN, produced by 0 / 0 in map()

\* ------------------------------------------------------------- arithmetic
IsNaN(x) == x = NaN
Mul(x, y) == IF IsNaN(x) \/ IsNaN(y) THEN NaN ELSE x * y
Sub(x, y) == IF IsNaN(x) \/ IsNaN(y) THEN NaN ELSE x - y

\* Math.min / Math.max: NaN if either argument is NaN.
MathMin(x, y) == IF IsNaN(x) \/ IsNaN(y) THEN NaN ELSE IF x < y THEN x ELSE y
MathMax(x, y) == IF IsNaN(x) \/ IsNaN(y) THEN NaN ELSE IF x > y THEN x ELSE y

\* p5 constrain(n, low, high) = Math.max(Math.min(n, high), low)
Constrain(n, low, high) == MathMax(MathMin(n, high), low)

\* num / den with den # 0, rounded down.
Div(num, den) == IF den > 0 THEN num \div den ELSE (0 - num) \div (0 - den)

\* p5 map(n, start1, stop1, start2, stop2, withinBounds):
\*   newval = (n - start1) / (stop1 - start1) * (stop2 - start2) + start2
\*   if (!withinBounds) return newval
\*   return constrain(newval, min(start2, stop2), max(start2, stop2))
\* A zero source range divides by zero: 0 / 0 is NaN; x / 0 is an infinity,
\* which only the clamped form is given here (it clamps to a bound).
P5MapRaw(n, start1, stop1, start2, stop2) ==
    IF stop1 = start1
    THEN IF n = start1 \/ stop2 = start2 THEN NaN
         ELSE IF (n > start1) = (stop2 > start2)
              THEN 2 * ChannelMax * ColorUnit
              ELSE 0 - 2 * ChannelMax * ColorUnit
    ELSE Div((n - start1) * (stop2 - start2), stop1 - start1) + start2

P5Map(n, start1, stop1, start2, stop2, withinBounds) ==
    LET newval == P5MapRaw(n, start1, stop1, start2, stop2)
    IN  IF ~withinBounds THEN newval
        ELSE IF start2 < stop2 THEN Constrain(newval, start2, stop2)
                               ELSE Constrain(newval, stop2, start2)

RECURSIVE SqrtSearch(_, _, _)
SqrtSearch(n, lo, hi) ==
    IF lo >= hi THEN lo
    ELSE LET mid == (lo + hi + 1) \div 2
         IN  IF mid * mid <= n THEN SqrtSearch(n, mid, hi)
                               ELSE SqrtSearch(n, lo, mid - 1)

\* p5.Vector.dist: the Euclidean distance (square root rounded down).
Dist(p, q) ==
    LET dx == p[1] - q[1]
        dy == p[2] - q[2]
        n  == dx * dx + dy * dy
    IN  SqrtSearch(n, 0, IF n < 4096 THEN n ELSE 4096)

\* p5.Vector.add and p5.Vector.div change the vector they are called on and
\* return it: the value given here is the new value of that vector.
VecAdd(v, w) == <<v[1] + w[1], v[2] + w[2]>>
VecDiv(v, n) == <<Div(v[1], n), Div(v[2], n)>>

\* p5 color(v1, v2, v3, a) in the default colour mode: every channel is
\* clamped to 0..255 (a NaN channel stays NaN).
ClampChannel(x) ==
    IF IsNaN(x) THEN NaN
    ELSE IF x < 0 THEN 0
    ELSE IF x > ChannelMax * ColorUnit THEN ChannelMax * ColorUnit ELSE x
P5Color(v1, v2, v3, a) ==
    <<ClampChannel(v1), ClampChannel(v2), ClampChannel(v3), ClampChannel(a)>>

\* ------------------------------------------------------------ input sets
\* Directions of length 5 with integer coordinates; their mutual distances
\* are 0, 6, 8 and 10 and their midpoints have integer coordinates.
UnitDirs == {<<3, 4>>, <<-3, 4>>, <<-3, -4>>}

\* randomPointOnCircleEdge(r, cx, cy): the points it can return, all on the
\* circle of radius |r| around (cx, cy).
RandomPointOnCircleEdge(r, cx, cy) ==
    {<<cx + Div(r, 5) * u[1], cy + Div(r, 5) * u[2]>> : u \in UnitDirs}

Sizes == {5 * k : k \in -1 .. MaxRadiusScale}
Positions == {<<0, 0>>, <<0, 450>>}
Colors == {[a |-> 255, b |-> 100, c |-> 255, d |-> 200],
           [a |-> 10, b |-> 0, c |-> 20, d |-> 255]}
IterationCounts == -1 .. MaxIterations
Lights == {<<0, 0>>, <<0, 900>>, <<0, 1800>>}


\* ------------------------------------------------------------------ state
VARIABLES
    sphere,       \* the CosmicSphere object: [size, pos, col, iterations]
    given,        \* the arguments its constructor was called with
    lightSource,  \* the global light position read by drawSphere
    lightAtCall,  \* lightSource when the current / last drawSphere call began
    surface,      \* the p5 drawing state: [blend, filled, fill, stroke, weight]
    pc,           \* "idle", "loop" (inside drawSphere), "returned"
    i,            \* the loop variable of drawSphere
    log,          \* the drawing calls issued by the current / last drawSphere
    tape,         \* the point pairs the random source returned in that call
    chord,        \* the locals of the last loop iteration
    replay,       \* the random source repeats the previous call's points
    prevTape,     \* the previous call's tape (when replay)
    prevLog       \* the previous call's log (when replay)

vars == <<sphere, given, lightSource, lightAtCall, surface, pc, i, log, tape,
          chord, replay, prevTape, prevLog>>

\* A drawing call: its name, its string argument (blend mode) and its
\* numeric arguments.
Op(name, mode, args) == [op |-> name, mode |-> mode, args |-> args]

\* The effect of one drawing call on the drawing state.
ApplyOp(s, o) ==
    CASE o.op = "blendMode"    -> [s EXCEPT !.blend = o.mode]
      [] o.op = "fill"         -> [s EXCEPT !.filled = TRUE, !.fill = o.args]
      [] o.op = "noFill"       -> [s EXCEPT !.filled = FALSE]
      [] o.op = "stroke"       -> [s EXCEPT !.stroke = o.args]
      [] o.op = "strokeWeight" -> [s EXCEPT !.weight = o.args[1]]
      [] OTHER                 -> s

RECURSIVE ApplyOps(_, _)
ApplyOps(s, ops) ==
    IF ops = <<>> THEN s ELSE ApplyOps(ApplyOp(s, Head(ops)), Tail(ops))

\* The drawing state of a fresh p5 sketch: blend mode BLEND (source-over),
\* white fill, black stroke, stroke weight 1.
DefaultSurface ==
    [blend  |-> SourceOver,
     filled |-> TRUE,
     fill   |-> <<ChannelMax * ColorUnit, ChannelMax * ColorUnit,
                  ChannelMax * ColorUnit, ChannelMax * ColorUnit>>,
     stroke |-> <<0, 0, 0, ChannelMax * ColorUnit>>,
     weight |-> 1]

NoChord ==
    [s1 |-> <<0, 0>>, s2 |-> <<0, 0>>, p1 |-> <<0, 0>>, p2 |-> <<0, 0>>,
     lenLine |-> 0, aLineLen |-> 0, midPoint |-> <<0, 0>>, dLight |-> 0,
     aLight |-> 0, alpha_1 |-> 0, args |-> <<0, 0, 0, 0>>,
     baseColor |-> <<0, 0, 0, 0>>]

\* ------------------------------------------------------------ constructor
\* constructor(size, pos, col, iterations): stores its four arguments.
Constructor(size, pos, col, iterations) ==
    [size |-> size, pos |-> pos, col |-> col, iterations |-> iterations]

Init ==
    /\ \E size \in Sizes, pos \in Positions, col \in Colors,
          iterations \in IterationCounts :
          /\ sphere = Constructor(size, pos, col, iterations)
          /\ given = [size |-> size, pos |-> pos, col |-> col,
                      iterations |-> iterations]
    /\ lightSource \in Lights
    /\ lightAtCall = lightSource
    /\ surface = DefaultSurface
    /\ pc = "idle"
    /\ i = 0
    /\ log = <<>>
    /\ tape = <<>>
    /\ chord = NoChord
    /\ replay = FALSE
    /\ prevTape = <<>>
    /\ prevLog = <<>>

\* The caller moves the light between two drawSphere calls.
SetLight ==
    /\ pc # "loop"
    /\ \E l \in Lights : l # lightSource /\ lightSource' = l
    /\ lightAtCall' = lightSource'
    /\ pc' = "idle"
    /\ log' = <<>> /\ tape' = <<>> /\ chord' = NoChord
    /\ replay' = FALSE /\ prevTape' = <<>> /\ prevLog' = <<>>
    /\ UNCHANGED <<sphere, given, surface, i>>


\* -------------------------------------------------------------- drawSphere
\* Variant of Prologue with the additive blend mode switched on before the
\* base circle is drawn.
PrologueAddFirst(sph) ==
    <<Op("blendMode", ADD, <<>>),
      Op("fill", "", P5Color(0, 0, 0, ChannelMax * ColorUnit)),
      Op("circle", "", <<sph.pos[1], sph.pos[2], sph.size * 2>>),
      Op("noFill", "", <<>>)>>

\* Lines 15-19: the drawing calls issued before the loop.
Prologue(sph) ==
    <<Op("blendMode", SourceOver, <<>>),
      Op("fill", "", P5Color(0, 0, 0, ChannelMax * ColorUnit)),
      Op("circle", "", <<sph.pos[1], sph.pos[2], sph.size * 2>>),
      Op("blendMode", ADD, <<>>),
      Op("noFill", "", <<>>)>>

\* Variant of LoopInit: the loop variable is not reset on entry.
LoopInitKeep(old) == old
\* Variant of LoopCond: one iteration too many.
LoopCondInclusive(k, n) == k <= n

\* Line 20: for (var i = 0; i < this.iterations; i++)
LoopInit(old) == 0
LoopCond(k, n) == k < n

\* The target value 0.3 of the length mapping, in units of 1/AlphaScale.
LenAlphaFar == (3 * AlphaScale) \div 10

\* Lines 21-34: the locals of one loop iteration, for the two sampled points
\* s1 and s2.  p1.add(p2).div(2) changes the vector p1 in place and returns
\* it, so after line 25 p1 and midPoint are the same vector.
ChordLocals(sph, light, s1, s2) ==
    LET lenLine  == Dist(s1, s2)
        aLineLen == P5Map(lenLine, 0, sph.size * 2, AlphaScale, LenAlphaFar, TRUE)
        midPoint == VecDiv(VecAdd(s1, s2), 2)
        dLight   == Dist(midPoint, light)
        aLight   == P5Map(dLight, LightNear, LightFar, 0, AlphaScale, FALSE)
        alpha_1  == Mul(aLight, aLineLen)
        args     == <<sph.col.a * ColorUnit,
                      Sub(sph.col.b * ColorUnit, Mul(alpha_1, sph.col.b)),
                      sph.col.c * ColorUnit,
                      Mul(alpha_1, sph.col.d)>>
    IN  [s1 |-> s1, s2 |-> s2, p1 |-> midPoint, p2 |-> s2,
         lenLine |-> lenLine, aLineLen |-> aLineLen, midPoint |-> midPoint,
         dLight |-> dLight, aLight |-> aLight, alpha_1 |-> alpha_1,
         args |-> args,
         baseColor |-> P5Color(args[1], args[2], args[3], args[4])]

\* Lines 35-37: the drawing calls of one loop iteration.
ChordOps(c) ==
    <<Op("stroke", "", c.baseColor),
      Op("strokeWeight", "", <<1>>),
      Op("line", "", <<c.p1[1], c.p1[2], c.p2[1], c.p2[2]>>)>>

\* drawSphere is entered: lines 15-19 and the loop initialisation.
EnterDrawSphere ==
    /\ pc # "loop"
    /\ log' = Prologue(sphere)
    /\ surface' = ApplyOps(surface, Prologue(sphere))
    /\ i' = LoopInit(i)
    /\ tape' = <<>>
    /\ chord' = NoChord
    /\ lightAtCall' = lightSource
    /\ pc' = "loop"
    /\ UNCHANGED <<sphere, given, lightSource>>

\* A call of drawSphere with the ambient random source.
DrawSphereFresh ==
    /\ EnterDrawSphere
    /\ replay' = FALSE /\ prevTape' = <<>> /\ prevLog' = <<>>

\* A second call of drawSphere on the same sphere with the same light, the
\* random source returning the same points as in the call before.
DrawSphereReplay ==
    /\ pc = "returned"
    /\ ~replay
    /\ EnterDrawSphere
    /\ replay' = TRUE /\ prevTape' = tape /\ prevLog' = log

\* What one loop iteration (lines 20-37) changes.
ChordStep(s1, s2) ==
    LET c == ChordLocals(sphere, lightSource, s1, s2)
    IN  /\ pc = "loop"
        /\ LoopCond(i, sphere.iterations)
        /\ chord' = c
        /\ log' = log \o ChordOps(c)
        /\ surface' = ApplyOps(surface, ChordOps(c))
        /\ tape' = Append(tape, <<s1, s2>>)
        /\ i' = i + 1
        /\ UNCHANGED <<pc, replay, prevTape, prevLog, lightAtCall>>

\* Variant of DrawChord: the sampling centre is computed by doubling
\* this.pos in place.
DrawChordDoublesPos(s1, s2) ==
    /\ ChordStep(s1, s2)
    /\ sphere' = [sphere EXCEPT !.pos = <<sphere.pos[1] * 2, sphere.pos[2] * 2>>]
    /\ UNCHANGED <<given, lightSource>>

\* One loop iteration: nothing of the sphere or of the light is assigned.
DrawChord(s1, s2) ==
    /\ ChordStep(s1, s2)
    /\ UNCHANGED <<sphere, given, lightSource>>

DrawChordFresh ==
    /\ ~replay
    /\ \E s1, s2 \in RandomPointOnCircleEdge(sphere.size, sphere.pos[1] * 2,
                                             sphere.pos[2] * 2) :
          DrawChord(s1, s2)

DrawChordReplay ==
    /\ replay
    /\ i >= 0 /\ i < Len(prevTape)
    /\ DrawChord(prevTape[i + 1][1], prevTape[i + 1][2])

\* The loop condition fails: drawSphere returns.
DrawSphereReturn ==
    /\ pc = "loop"
    /\ ~LoopCond(i, sphere.iterations)
    /\ pc' = "returned"
    /\ UNCHANGED <<sphere, given, lightSource, lightAtCall, surface, i, log,
                   tape, chord, replay, prevTape, prevLog>>

Next ==
    \/ SetLight
    \/ DrawSphereFresh
    \/ DrawSphereReplay
    \/ DrawChordFresh
    \/ DrawChordReplay
    \/ DrawSphereReturn

Spec == Init /\ [][Next]_vars


\* ================================================================ claims
\* Number of calls of the given name in the log.
Count(name) == Cardinality({k \in 1 .. Len(log) : log[k].op = name})

\* The drawing state in which the k-th call of the log is made, when the
\* call of drawSphere began in drawing state s0.
StateBefore(s0, k) == ApplyOps(s0, SubSeq(log, 1, k - 1))

\* A loop iteration of the current / last call has run: chord holds its locals.
HasChord == pc # "idle" /\ Len(tape) > 0

\* radius > 0 and chordCount >= 0
ValidConfiguration == sphere.size > 0 /\ sphere.iterations >= 0

\* C1: for a valid configuration a completed call of drawSphere has issued
\* exactly one circle and exactly `iterations` lines (none when it is 0).
C1_OneCircleChordCountLines ==
    (pc = "returned" /\ ValidConfiguration)
        => /\ Count("circle") = 1
           /\ Count("line") = sphere.iterations

C1_Witness ==
    /\ pc = "returned" /\ ValidConfiguration
    /\ sphere.iterations = 2
    /\ Count("circle") = 1 /\ Count("line") = 2

\* C2: for every chord of a valid sphere alpha_1 = aLight * aLineLen lies in
\* [0, 1] and the alpha of the stroke colour set for it is at most col.d.
C2_CombinedAlphaInUnitRange ==
    (HasChord /\ ValidConfiguration)
        => /\ chord.alpha_1 >= 0 /\ chord.alpha_1 <= ColorUnit
           /\ chord.baseColor[4] <= sphere.col.d * ColorUnit

\* C3: for every chord of a valid sphere aLight is the clamped map of
\* dLight: 0 at 600 or less, 1 at 1200 or more, within [0, 1] in between.
C3_LightAlphaClamped ==
    (HasChord /\ ValidConfiguration)
        => /\ chord.dLight <= LightNear => chord.aLight = 0
           /\ chord.dLight >= LightFar => chord.aLight = AlphaScale
           /\ chord.aLight >= 0 /\ chord.aLight <= AlphaScale

\* C4: no sphere object exists whose size is <= 0 or whose iterations is < 0.
C4_InvalidConfigurationRejected ==
    sphere.size > 0 /\ sphere.iterations >= 0

\* C5: for every chord of a sphere of radius >= 0 (radius 0 included)
\* aLineLen lies in [0.3, 1] and is the linear map of the chord length that
\* sends 0 to 1 and 2 * size to 0.3.
C5_LengthAlphaLinear ==
    (HasChord /\ sphere.size >= 0)
        => /\ chord.aLineLen >= LenAlphaFar /\ chord.aLineLen <= AlphaScale
           /\ chord.lenLine = 0 => chord.aLineLen = AlphaScale
           /\ chord.lenLine = 2 * sphere.size => chord.aLineLen = LenAlphaFar
           /\ chord.aLineLen * (2 * sphere.size)
                 = AlphaScale * (2 * sphere.size)
                   - (AlphaScale - LenAlphaFar) * chord.lenLine

\* C6: a second call of drawSphere on the same sphere, with the same light
\* and the random source returning the same points, issues the same
\* sequence of drawing calls with the same arguments as the first.
C6_ReplayIssuesSameCalls ==
    (pc = "returned" /\ replay) => log = prevLog

C6_Witness ==
    /\ pc = "returned" /\ replay
    /\ Len(tape) = 2 /\ tape = prevTape
    /\ Count("line") = 2
    /\ log = prevLog

\* The point p lies on the circle of radius |size| around (2 pos.x, 2 pos.y).
OnSampleCircle(p) ==
    LET dx == p[1] - 2 * sphere.pos[1]
        dy == p[2] - 2 * sphere.pos[2]
    IN  dx * dx + dy * dy = sphere.size * sphere.size

\* C7: the line of every iteration (valid sphere) runs between the two
\* points sampled in that iteration, both on the sampling circle; the
\* midpoint computation leaves p1 and p2 as sampled.
C7_LineJoinsSampledPoints ==
    (HasChord /\ ValidConfiguration)
        => /\ log[Len(log)].op = "line"
           /\ log[Len(log)].args
                 = <<chord.s1[1], chord.s1[2], chord.s2[1], chord.s2[2]>>
           /\ chord.p1 = chord.s1 /\ chord.p2 = chord.s2
           /\ OnSampleCircle(<<log[Len(log)].args[1], log[Len(log)].args[2]>>)
           /\ OnSampleCircle(<<log[Len(log)].args[3], log[Len(log)].args[4]>>)

\* The drawing state a call of drawSphere may begin in that is least
\* favourable to the base circle: additive, fill disabled.
AdditiveSurface == [DefaultSurface EXCEPT !.blend = ADD, !.filled = FALSE]

\* C8: within a call the first drawing call sets the blend mode to
\* source-over and the one circle, centred at pos with diameter 2 * size, is
\* drawn filled in opaque black in that mode before any line; every line is
\* drawn in additive mode with fill disabled; and on return the drawing
\* state is still additive with fill disabled.
C8_CallsOrdered ==
    pc # "idle"
        => /\ Len(log) >= 1
           /\ log[1] = Op("blendMode", SourceOver, <<>>)
           /\ \E c \in 1 .. Len(log) :
                 /\ log[c] = Op("circle", "",
                               <<given.pos[1], given.pos[2], 2 * given.size>>)
                 /\ StateBefore(AdditiveSurface, c).blend = SourceOver
                 /\ StateBefore(AdditiveSurface, c).filled
                 /\ StateBefore(AdditiveSurface, c).fill
                       = <<0, 0, 0, ChannelMax * ColorUnit>>
                 /\ \A k \in 1 .. c : log[k].op # "line"
           /\ \A k \in 1 .. Len(log) :
                 log[k].op = "line"
                     => /\ StateBefore(DefaultSurface, k).blend = ADD
                        /\ ~StateBefore(DefaultSurface, k).filled
           /\ pc = "returned" => (surface.blend = ADD /\ ~surface.filled)

C8_Witness ==
    /\ pc = "returned"
    /\ Count("line") = 2
    /\ log[3].op = "circle"
    /\ surface.blend = ADD /\ ~surface.filled

\* C9: for every chord of a valid sphere the colour built for the stroke is
\* (col.a, col.b * (1 - alpha_1), col.c, col.d * alpha_1), the stroke weight
\* is 1, and the second channel of the stroke colour in force at the line
\* draw lies in [0, col.b].
C9_StrokeColour ==
    (HasChord /\ ValidConfiguration)
        => /\ chord.args
                 = <<sphere.col.a * ColorUnit,
                     sphere.col.b * (ColorUnit - chord.alpha_1),
                     sphere.col.c * ColorUnit,
                     sphere.col.d * chord.alpha_1>>
           /\ surface.weight = 1
           /\ surface.stroke[2] >= 0
           /\ surface.stroke[2] <= sphere.col.b * ColorUnit

\* C10: drawSphere changes neither the sphere's fields, which keep the
\* values given to the constructor, nor the light position.
C10_ConfigurationUnchanged ==
    /\ sphere = given
    /\ lightSource = lightAtCall

C10_Witness ==
    /\ pc = "returned" /\ replay
    /\ Len(tape) = 2
    /\ sphere = given /\ lightSource = lightAtCall

====
